---- MODULE Spec2Model ----
(***************************************************************************)
(* Model of weather_in.py: the memoized reference data (get_cities,        *)
(* get_country_codes), the city resolver get_city_id with its interactive  *)
(* country prompt, and the weather_in command (resolve, call the weather   *)
(* service, select the output lines).                                      *)
(*                                                                         *)
(* A Python str is a sequence of one-character strings, so that            *)
(* str.lower(), len() and == are computed character by character.          *)
(***************************************************************************)
EXTENDS Integers, Sequences, FiniteSets, TLC

VARIABLES
    cities_json,        \* content of cities.json on disk (never written)
    country_codes_json, \* content of country_codes.json on disk (never written)
    cities_cache,       \* lru_cache of get_cities: <<>> or <<value>>
    codes_cache,        \* lru_cache of get_country_codes: <<>> or <<value>>
    cities_reads,       \* number of times cities.json was opened and parsed
    codes_reads,        \* number of times country_codes.json was opened and parsed
    calls,              \* get_city_id calls made so far in this process
    city,               \* argument of the last get_city_id call
    stdin,              \* lines typed at the prompt of that call (<<>> if none)
    result,             \* what that call returned (or the exception it raised)
    prompts,            \* click.prompt invocations made by that call
    pc,                 \* position of the weather_in command
    flags,              \* the display flags and verbose, as parsed by click
    argv,               \* the flags in the order they were given
    units,              \* --units
    time_format,        \* --time-format
    key_set,            \* whether the environment variable KEY is set
    requests,           \* requests.get calls issued by this run
    response,           \* what the weather service answered
    echoed              \* what the run wrote with click.echo

vars == <<cities_json, country_codes_json, cities_cache, codes_cache,
          cities_reads, codes_reads, calls, city, stdin, result, prompts,
          pc, flags, argv, units, time_format, key_set, requests, response,
          echoed>>

store_vars == <<cities_json, country_codes_json>>
cache_vars == <<cities_cache, codes_cache, cities_reads, codes_reads>>
call_vars  == <<calls, city, stdin, result, prompts>>
cli_vars   == <<pc, flags, argv, units, time_format, key_set, requests,
                response, echoed>>

(***************************************************************************)
(* Bounds of the model.                                                    *)
(***************************************************************************)
MaxCat   == 3   \* records in cities.json
MaxCalls == 2   \* get_city_id calls in one process

(***************************************************************************)
(* Strings.                                                                *)
(***************************************************************************)
LowerOf ==
    [c \in {"A", "B", "C", "D", "E", "F", "G", "L", "M", "N", "O", "P", "R",
            "S", "U", "Y"} |->
        CASE c = "A" -> "a" [] c = "B" -> "b" [] c = "C" -> "c"
          [] c = "D" -> "d" [] c = "E" -> "e" [] c = "F" -> "f"
          [] c = "G" -> "g" [] c = "L" -> "l" [] c = "M" -> "m"
          [] c = "N" -> "n" [] c = "O" -> "o" [] c = "P" -> "p"
          [] c = "R" -> "r" [] c = "S" -> "s" [] c = "U" -> "u"
          [] c = "Y" -> "y"]

\* str.lower(): every cased character is replaced, the others are kept
lower(s) ==
    [i \in 1..Len(s) |-> IF s[i] \in DOMAIN LowerOf THEN LowerOf[s[i]] ELSE s[i]]

(***************************************************************************)
(* The two data files.  cities.json is a list of records and               *)
(* country_codes.json an object from 2-letter code to country name; a      *)
(* Python dict is a sequence of <<key, value>> pairs in insertion order,   *)
(* read through has_key and item.                                          *)
(***************************************************************************)
FR       == <<"F", "R">>
BG       == <<"B", "G">>
DE       == <<"D", "E">>
France   == <<"F", "r", "a", "n", "c", "e">>
Bulgaria == <<"B", "u", "l", "g", "a", "r", "i", "a">>
Germany  == <<"G", "e", "r", "m", "a", "n", "y">>

CityPool ==
    { [name |-> <<"P", "a">>, country |-> FR,           id |-> 14],
      [name |-> <<"P", "A">>, country |-> FR,           id |-> 11],
      [name |-> <<"p", "a">>, country |-> <<"f", "r">>, id |-> 13],
      [name |-> <<"P", "a">>, country |-> BG,           id |-> 12],
      [name |-> <<"S", "o">>, country |-> BG,           id |-> 15] }

\* the catalogs: up to MaxCat records of the pool, in any order
Catalogs ==
    { c \in UNION { [1..n -> CityPool] : n \in 0..MaxCat } :
        \A i, j \in DOMAIN c : i # j => c[i] # c[j] }

CountryTables ==
    { << <<FR, France>>, <<BG, Bulgaria>>, <<DE, Germany>> >>,
      << <<lower(BG), lower(Bulgaria)>>, <<FR, lower(France)>> >> }

has_key(d, k) == \E i \in DOMAIN d : d[i][1] = k

\* d[k]: a later pair with the same key has overwritten an earlier one
item(d, k) ==
    LET last == CHOOSE i \in DOMAIN d :
                    /\ d[i][1] = k
                    /\ \A j \in DOMAIN d : d[j][1] = k => j <= i
    IN  d[last][2]

reverse_dict(d) == [i \in DOMAIN d |-> <<d[i][2], d[i][1]>>]

\* a lower_dict that forgets the keys
lower_dict_values(d) == [i \in DOMAIN d |-> <<d[i][1], lower(d[i][2])>>]

lower_dict(d) == [i \in DOMAIN d |-> <<lower(d[i][1]), lower(d[i][2])>>]

(***************************************************************************)
(* The memoized loaders.  Each returns the value, the cache and the read   *)
(* count after the call.                                                   *)
(***************************************************************************)
\* a loader without its @lru_cache decorator
lru_uncached(cache, reads, file) ==
    [value |-> file, cache |-> <<file>>, reads |-> reads + 1]

lru_cache(cache, reads, file) ==
    IF cache # <<>>
    THEN [value |-> cache[1], cache |-> cache, reads |-> reads]
    ELSE [value |-> file, cache |-> <<file>>, reads |-> reads + 1]

get_cities == lru_cache(cities_cache, cities_reads, cities_json)

get_country_codes == lru_cache(codes_cache, codes_reads, country_codes_json)

(***************************************************************************)
(* click.prompt(text, type=str) with no default: it reads lines until one  *)
(* is not empty and returns it unchanged; at end of input it raises Abort. *)
(***************************************************************************)
Abort == [kind |-> "Abort"]

click_prompt(lines) ==
    LET filled == { i \in DOMAIN lines : lines[i] # <<>> }
    IN  IF filled = {}
        THEN [raised |-> TRUE, value |-> <<>>]
        ELSE [raised |-> FALSE,
              value  |-> lines[CHOOSE i \in filled : \A j \in filled : i <= j]]

(***************************************************************************)
(* get_city_id.  The returned strings are kept as the template used and    *)
(* the strings substituted in it.                                          *)
(***************************************************************************)
Resolved(id) == [kind |-> "Resolved", id |-> id]

\* the message built from the normalised city instead of the argument
NotFound_lowered(c) == [kind |-> "NotFound", city |-> lower(c)]

NotFound(c) == [kind |-> "NotFound", city |-> c]

\* the message built from the normalised country instead of the typed one
CountryNotRecognized_lowered(k) ==
    [kind |-> "CountryNotRecognized", country |-> lower(k)]

CountryNotRecognized(k) == [kind |-> "CountryNotRecognized", country |-> k]

CityNotFoundInCountry(c, k) ==
    [kind |-> "CityNotFoundInCountry", city |-> c, country |-> k]

found_cities(cities, c) ==
    SelectSeq(cities, LAMBDA r : lower(r.name) = lower(c))

get_city_id_by_name(cities, c) ==
    LET f == found_cities(cities, c) IN [i \in DOMAIN f |-> f[i].id]

found_countries(cities, c) ==
    LET f == found_cities(cities, c) IN { f[i].country : i \in DOMAIN f }

\* a lookup that searches the codes and the names whatever the length
country_codes_both(codes, country) ==
    lower_dict(codes \o reverse_dict(codes))

\* lines 88-90: the table searched, by the length of the supplied string
country_codes_lowered(codes, country) ==
    lower_dict(IF Len(country) > 2 THEN reverse_dict(codes) ELSE codes)

\* lines 97-98
country_code(codes, country) ==
    IF Len(country) > 2
    THEN item(country_codes_lowered(codes, country), lower(country))
    ELSE lower(country)

\* a scan whose failure message names the resolved code
scan_reports_code(cities, c, country, code) ==
    LET hits == { i \in DOMAIN cities :
                    /\ lower(cities[i].name) = lower(c)
                    /\ lower(cities[i].country) = code }
    IN  IF hits = {}
        THEN [kind |-> "CityNotFoundInCountry", city |-> c, country |-> code]
        ELSE [kind |-> "Resolved",
              id |-> cities[CHOOSE i \in hits : \A j \in hits : i <= j].id]

\* lines 100-107: the for / else scan of the whole catalog
scan(cities, c, country, code) ==
    LET hits == { i \in DOMAIN cities :
                    /\ lower(cities[i].name) = lower(c)
                    /\ lower(cities[i].country) = code }
    IN  IF hits = {}
        THEN CityNotFoundInCountry(c, country)
        ELSE Resolved(cities[CHOOSE i \in hits : \A j \in hits : i <= j].id)

\* lines 84-107: the branch taken when the prompt is needed
disambiguate(cities, codes, c, lines) ==
    LET p == click_prompt(lines)
        country == p.value
    IN  IF p.raised
        THEN Abort
        ELSE IF ~ has_key(country_codes_lowered(codes, country), lower(country))
        THEN CountryNotRecognized(country)
        ELSE scan(cities, c, country, country_code(codes, country))

\* whether the call reaches click.prompt (line 83)
needs_prompt(cities, c) ==
    /\ Len(found_cities(cities, c)) > 1
    /\ Cardinality(found_countries(cities, c)) > 1

get_city_id(cities, codes, c, lines) ==
    IF Len(found_cities(cities, c)) < 1
    THEN NotFound(c)
    ELSE IF Len(found_cities(cities, c)) = 1
    THEN Resolved(get_city_id_by_name(cities, c)[1])
    ELSE IF Cardinality(found_countries(cities, c)) = 1
    THEN Resolved(get_city_id_by_name(cities, c)[1])
    ELSE disambiguate(cities, codes, c, lines)

(***************************************************************************)
(* Inputs.                                                                 *)
(***************************************************************************)
CityInputs ==
    { <<"P", "a">>, <<"p", "A">>, <<"s", "O">>, <<" ", "P", "a">>, <<"L", "i">> }

CountryInputs ==
    { France, <<"f", "R", "a", "N", "c", "E">>, FR, <<"f", "R">>,
      Bulgaria, lower(BG), DE, Germany,
      <<" ">>, <<"1">>, <<"F">>, <<"F", "r", "a">>, <<"F", "R", " ">> }

\* what the operator types at the prompt: nothing (end of input), an empty
\* line and then nothing, an empty line and then a country, or a country
StdinInputs ==
    { <<>>, << <<>> >>, << <<>>, FR >> } \cup { <<k>> : k \in CountryInputs }

NoCall == [kind |-> "None"]

(***************************************************************************)
(* A process that calls get_city_id directly, as the test suite does.      *)
(***************************************************************************)
Init ==
    /\ cities_json \in Catalogs
    /\ country_codes_json \in CountryTables
    /\ cities_cache = <<>>
    /\ codes_cache = <<>>
    /\ cities_reads = 0
    /\ codes_reads = 0
    /\ calls = 0
    /\ city = <<>>
    /\ stdin = <<>>
    /\ result = NoCall
    /\ prompts = 0
    /\ pc = "test"
    /\ flags = {}
    /\ argv = <<>>
    /\ units = "metric"
    /\ time_format = 24
    /\ key_set = TRUE
    /\ requests = 0
    /\ response = NoCall
    /\ echoed = <<>>

\* one whole call get_city_id(c); `lines` is what the prompt, if reached, reads
Resolve(c, lines) ==
    LET cs == get_cities
        prompted == needs_prompt(cs.value, c)
        \* get_country_codes() is reached only after the prompt returned
        loads == prompted /\ ~ click_prompt(lines).raised
        ks == get_country_codes
    IN  /\ cities_cache' = cs.cache
        /\ cities_reads' = cs.reads
        /\ codes_cache' = IF loads THEN ks.cache ELSE codes_cache
        /\ codes_reads' = IF loads THEN ks.reads ELSE codes_reads
        /\ calls' = calls + 1
        /\ city' = c
        /\ stdin' = lines
        /\ prompts' = IF prompted THEN 1 ELSE 0
        /\ result' = get_city_id(cs.value, country_codes_json, c, lines)

GetCityId ==
    /\ pc = "test"
    /\ calls < MaxCalls
    /\ \E c \in CityInputs :
          \E lines \in IF needs_prompt(get_cities.value, c)
                        THEN StdinInputs ELSE {<<>>} :
              Resolve(c, lines)
    /\ UNCHANGED <<store_vars, cli_vars>>

Next == GetCityId

Spec == Init /\ [][Next]_vars

(***************************************************************************)
(* The same process over a country_codes.json that need not follow         *)
(* ISO-3166-1: json.load accepts any strings as keys and values, here a    *)
(* 3-character key and a 2-character value.                                *)
(***************************************************************************)
FreeFormTables ==
    { << <<FR, France>>, <<BG, Bulgaria>>, <<DE, Germany>> >>,
      << <<FR, BG>>, << <<"F", "r", "a">>, France >> >> }

InitFreeForm ==
    /\ cities_json \in Catalogs
    /\ country_codes_json \in FreeFormTables
    /\ cities_cache = <<>>
    /\ codes_cache = <<>>
    /\ cities_reads = 0
    /\ codes_reads = 0
    /\ calls = 0
    /\ city = <<>>
    /\ stdin = <<>>
    /\ result = NoCall
    /\ prompts = 0
    /\ pc = "test"
    /\ flags = {}
    /\ argv = <<>>
    /\ units = "metric"
    /\ time_format = 24
    /\ key_set = TRUE
    /\ requests = 0
    /\ response = NoCall
    /\ echoed = <<>>

SpecFreeForm == InitFreeForm /\ [][Next]_vars

(***************************************************************************)
(* The weather_in command.                                                 *)
(***************************************************************************)
\* the display options, in the order of their declarations (lines 187-208)
FieldOrder ==
    <<"temperature", "feels_like", "weather_mood", "min_temperature",
      "max_temperature", "cloudiness", "pressure", "humidity", "wind_speed",
      "sunrise_time", "sunset_time">>

Fields == { FieldOrder[i] : i \in DOMAIN FieldOrder }

Options == Fields \cup {"verbose"}

\* click sets an is_flag option to True when it occurs on the command line
parse(args) == { args[i] : i \in DOMAIN args }

\* lines 232-234: any([...]) over the eleven display flags and verbose
any_flag(fl) == fl \cap Options # {}

\* a selection in which --verbose adds nothing
enabled_no_verbose(fl) ==
    IF fl \cap Options = {}
    THEN {"temperature", "feels_like", "weather_mood", "min_temperature",
          "max_temperature"}
    ELSE fl \cap Fields

\* lines 232-240: the display variables that are truthy afterwards
enabled(fl) ==
    IF ~ any_flag(fl)
    THEN {"temperature", "feels_like", "weather_mood", "min_temperature",
          "max_temperature"}
    ELSE IF "verbose" \in fl
    THEN Fields
    ELSE fl \cap Fields

\* lines 228-230
speed(u) == IF u = "metric" THEN "meter/sec" ELSE "miles/hour"

degrees(u) == IF u = "metric" THEN "Celsius" ELSE "Fahrenheit"

tformat(tf) == IF tf = 24 THEN "%H:%M:%S" ELSE "%I:%M:%S %p"

\* lines 251-261: the line of a field, as the field and the unit it is given in
message(f, u, tf) ==
    [field |-> f,
     unit  |-> CASE f \in {"temperature", "feels_like", "min_temperature",
                           "max_temperature"} -> degrees(u)
                 [] f = "wind_speed" -> speed(u)
                 [] f \in {"sunrise_time", "sunset_time"} -> tformat(tf)
                 [] OTHER -> ""]

\* lines 250-261: the list of (variable, message) pairs passed to set_output
vars_msgs(fl, u, tf) ==
    [i \in DOMAIN FieldOrder |->
        <<FieldOrder[i] \in enabled(fl), message(FieldOrder[i], u, tf)>>]

set_output(pairs) ==
    LET kept == SelectSeq(pairs, LAMBDA e : e[1])
    IN  [i \in DOMAIN kept |-> kept[i][2]]

\* call_api: what it does with the outcome of requests.get(url)
ServiceError(r) == [kind |-> "ServiceError", response |-> r]

Raised == [kind |-> "Raised"]

call_api(r) ==
    IF r.kind = "transport_error"
    THEN ServiceError(r)                      \* lines 150-153
    ELSE IF r.body = "not_json"
    THEN Raised                               \* line 154: json.loads raises
    ELSE IF r.status # 200
    THEN ServiceError(r)                      \* lines 155-157
    ELSE [kind |-> "Content"]                 \* line 158

Responses ==
    { [kind |-> "transport_error"],
      [kind |-> "http", status |-> 200, body |-> "weather"],
      [kind |-> "http", status |-> 401, body |-> "error"],
      [kind |-> "http", status |-> 404, body |-> "error"],
      [kind |-> "http", status |-> 502, body |-> "not_json"] }

InOrder(S) == SelectSeq(FieldOrder \o <<"verbose">>, LAMBDA f : f \in S)

Reverse(q) == [i \in DOMAIN q |-> q[Len(q) + 1 - i]]

\* the command lines: every combination of the flags in declaration order,
\* and the combinations of five of them in the opposite order
ArgvInputs ==
    { InOrder(S) : S \in SUBSET Options } \cup
    { Reverse(InOrder(S)) :
        S \in SUBSET {"verbose", "sunset_time", "pressure", "max_temperature",
                      "temperature"} }

CliCatalog ==
    << [name |-> <<"P", "a">>, country |-> FR, id |-> 14],
       [name |-> <<"P", "a">>, country |-> BG, id |-> 12],
       [name |-> <<"S", "o">>, country |-> BG, id |-> 15] >>

CliTable == << <<FR, France>>, <<BG, Bulgaria>>, <<DE, Germany>> >>

CliCityInputs == { <<"p", "A">>, <<"L", "i">> }

CliStdinInputs == { <<>>, <<FR>> }

InitCli ==
    /\ cities_json = CliCatalog
    /\ country_codes_json = CliTable
    /\ cities_cache = <<>>
    /\ codes_cache = <<>>
    /\ cities_reads = 0
    /\ codes_reads = 0
    /\ calls = 0
    /\ city = <<>>
    /\ stdin = <<>>
    /\ result = NoCall
    /\ prompts = 0
    /\ pc = "start"
    /\ argv \in ArgvInputs
    /\ flags = parse(argv)
    /\ units \in {"metric", "imperial"}
    /\ time_format \in {24, 12}
    /\ key_set \in BOOLEAN
    /\ requests = 0
    /\ response = NoCall
    /\ echoed = <<>>

\* lines 216-219: resolve the city; a str result is echoed and ends the run.
\* An Abort raised by the prompt ends the command as click's main does.
WeatherInResolve ==
    /\ pc = "start"
    /\ \E c \in CliCityInputs :
          \E lines \in IF needs_prompt(get_cities.value, c)
                        THEN CliStdinInputs ELSE {<<>>} :
              Resolve(c, lines)
    /\ pc' = CASE result'.kind = "Resolved" -> "resolved"
               [] result'.kind = "Abort" -> "aborted"
               [] OTHER -> "done"
    /\ echoed' = IF result'.kind \in {"Resolved", "Abort"}
                 THEN echoed ELSE Append(echoed, result')
    /\ UNCHANGED <<store_vars, flags, argv, units, time_format, key_set,
                   requests, response>>

\* lines 221-226: build_url and call_api; a str result is echoed and ends
\* the run.  build_url raises TypeError when KEY is not set (line 128).
WeatherInCallApi ==
    /\ pc = "resolved"
    /\ IF ~ key_set
       THEN /\ pc' = "crashed"
            /\ UNCHANGED <<requests, response, echoed>>
       ELSE \E r \in Responses :
                /\ requests' = requests + 1
                /\ response' = r
                /\ pc' = CASE call_api(r).kind = "Content" -> "fetched"
                           [] call_api(r).kind = "Raised" -> "crashed"
                           [] OTHER -> "done"
                /\ echoed' = IF call_api(r).kind = "ServiceError"
                             THEN Append(echoed, call_api(r)) ELSE echoed
    /\ UNCHANGED <<store_vars, cache_vars, call_vars, flags, argv, units,
                   time_format, key_set>>

\* lines 228-264: select the lines and echo them
WeatherInOutput ==
    /\ pc = "fetched"
    /\ echoed' = Append(echoed,
                        [kind  |-> "Weather",
                         city  |-> city,
                         lines |-> set_output(vars_msgs(flags, units, time_format))])
    /\ pc' = "done"
    /\ UNCHANGED <<store_vars, cache_vars, call_vars, flags, argv, units,
                   time_format, key_set, requests, response>>

NextCli == WeatherInResolve \/ WeatherInCallApi \/ WeatherInOutput

SpecCli == InitCli /\ [][NextCli]_vars

(***************************************************************************)
(* Vocabulary of the properties, stated on the files and on the last call. *)
(***************************************************************************)
Called == calls > 0

\* positions of the records whose name is the city, letter case apart
Matches == { i \in DOMAIN cities_json : lower(cities_json[i].name) = lower(city) }

\* the countries of those records, a country code being case-insensitive
MatchCountries == { lower(cities_json[i].country) : i \in Matches }

\* positions of the matching records that lie in the country of code k
MatchesIn(k) == { i \in Matches : lower(cities_json[i].country) = lower(k) }

First(S) == CHOOSE i \in S : \A j \in S : i <= j

\* the prompt returned the string Supplied
Answered == prompts = 1 /\ \E i \in DOMAIN stdin : stdin[i] # <<>>

Supplied == stdin[First({ i \in DOMAIN stdin : stdin[i] # <<>> })]

\* the table entries (code e[1], full name e[2]) that the string names
Names(s, e) == lower(s) = lower(e[1]) \/ lower(s) = lower(e[2])

Entries == { country_codes_json[i] : i \in DOMAIN country_codes_json }

Outcomes == {"Resolved", "NotFound", "CountryNotRecognized", "CityNotFoundInCountry"}

(***************************************************************************)
(* C1: when every record matching the city lies in one country (one        *)
(* record, or several of the same country), the call returns Resolved(id)  *)
(* of the first matching record in catalog order, whatever the letter case *)
(* of the city.                                                            *)
(***************************************************************************)
C1_OneCountryResolvesFirst ==
    (Called /\ Matches # {} /\ Cardinality(MatchCountries) = 1)
        => result = [kind |-> "Resolved", id |-> cities_json[First(Matches)].id]

(***************************************************************************)
(* C2: a city that is the name of no record, letter case apart, yields     *)
(* NotFound carrying the city exactly as it was passed.                    *)
(***************************************************************************)
C2_NotFoundCarriesInput ==
    (Called /\ Matches = {}) => result = [kind |-> "NotFound", city |-> city]

C2_Witness ==
    /\ Called
    /\ Matches = {}
    /\ city = <<" ", "P", "a">>
    /\ cities_json # <<>>
    /\ result.kind = "NotFound"

(***************************************************************************)
(* C3: when the matches span several countries and the string supplied at  *)
(* the prompt is, in any letter case, the code or the full name of a table *)
(* entry whose country holds a matching record, the call returns           *)
(* Resolved(id) of the first record of that city in that country.          *)
(***************************************************************************)
C3_CodeAndNameResolveAlike ==
    (Called /\ Cardinality(MatchCountries) >= 2 /\ Answered) =>
        \A e \in Entries :
            (Names(Supplied, e) /\ MatchesIn(e[1]) # {}) =>
                result = [kind |-> "Resolved",
                          id |-> cities_json[First(MatchesIn(e[1]))].id]

C3_Witness ==
    /\ Called
    /\ Cardinality(MatchCountries) >= 2
    /\ Answered
    /\ Supplied = <<"f", "R", "a", "N", "c", "E">>
    /\ Cardinality(MatchesIn(FR)) >= 2
    /\ First(MatchesIn(FR)) > First(Matches)
    /\ result.kind = "Resolved"

(***************************************************************************)
(* C4: when the matches span several countries and the supplied string is, *)
(* letter case apart, neither a code nor a full name of the table, the     *)
(* call returns CountryNotRecognized carrying the string as supplied.      *)
(***************************************************************************)
C4_UnknownCountryRejected ==
    (Called /\ Cardinality(MatchCountries) >= 2 /\ Answered
        /\ \A e \in Entries : ~ Names(Supplied, e))
        => result = [kind |-> "CountryNotRecognized", country |-> Supplied]

C4_Witness ==
    /\ Called
    /\ Cardinality(MatchCountries) >= 2
    /\ Answered
    /\ Supplied = <<"F", "R", " ">>
    /\ result.kind = "CountryNotRecognized"

(***************************************************************************)
(* C5: when the matches span several countries and the supplied string     *)
(* names a table entry whose country holds no matching record, the call    *)
(* returns CityNotFoundInCountry carrying the city and the country both as *)
(* supplied, and no id.                                                    *)
(***************************************************************************)
C5_CityNotInCountry ==
    (Called /\ Cardinality(MatchCountries) >= 2 /\ Answered) =>
        \A e \in Entries :
            (Names(Supplied, e) /\ MatchesIn(e[1]) = {}) =>
                result = [kind |-> "CityNotFoundInCountry",
                          city |-> city, country |-> Supplied]

C5_Witness ==
    /\ Called
    /\ Cardinality(MatchCountries) >= 2
    /\ Answered
    /\ Supplied = Germany
    /\ city = <<"p", "A">>
    /\ result.kind = "CityNotFoundInCountry"

(***************************************************************************)
(* C6: every call ends by returning one of the four outcomes Resolved,     *)
(* NotFound, CountryNotRecognized, CityNotFoundInCountry, whatever is      *)
(* typed at the prompt, nothing included.                                  *)
(***************************************************************************)
C6_AlwaysTypedOutcome == Called => result.kind \in Outcomes

(***************************************************************************)
(* C7: over all the calls of a process each data file is read and parsed   *)
(* at most once, and a loaded file is served from memory unchanged.        *)
(***************************************************************************)
C7_FilesReadOnce ==
    /\ cities_reads <= 1
    /\ codes_reads <= 1
    /\ cities_cache # <<>> => cities_cache = <<cities_json>>
    /\ codes_cache # <<>> => codes_cache = <<country_codes_json>>

C7_Witness ==
    /\ calls >= 2
    /\ prompts = 1
    /\ cities_reads = 1
    /\ codes_reads = 1

(***************************************************************************)
(* C10: a call invokes the country prompt exactly once when the matching   *)
(* records span at least two countries, a country code being               *)
(* case-insensitive, and never otherwise.                                  *)
(***************************************************************************)
C10_PromptIffSeveralCountries ==
    Called => prompts = (IF Cardinality(MatchCountries) >= 2 THEN 1 ELSE 0)

(***************************************************************************)
(* C8: the lines printed by weather_in are all eleven fields when verbose  *)
(* is given; temperature, feels-like, mood, min and max when neither a     *)
(* display flag nor verbose is given, whatever the units and the time      *)
(* format; otherwise the fields whose flags were given; always in the      *)
(* order of the flag declarations, whatever the order on the command line. *)
(***************************************************************************)
Given == { argv[i] : i \in DOMAIN argv }

Expected ==
    IF "verbose" \in Given THEN Fields
    ELSE IF Given \cap Fields = {}
    THEN {"temperature", "feels_like", "weather_mood", "min_temperature",
          "max_temperature"}
    ELSE Given \cap Fields

Printed == echoed[Len(echoed)].lines

C8_LinesFollowFlags ==
    (pc = "done" /\ echoed # <<>> /\ echoed[Len(echoed)].kind = "Weather") =>
        /\ Len(echoed) = 1
        /\ [i \in DOMAIN Printed |-> Printed[i].field]
               = SelectSeq(FieldOrder, LAMBDA f : f \in Expected)

C8_Witness ==
    /\ pc = "done"
    /\ echoed # <<>>
    /\ echoed[Len(echoed)].kind = "Weather"
    /\ argv = <<"sunset_time", "pressure", "temperature">>
    /\ units = "imperial"
    /\ Len(Printed) = 3
    /\ Printed[1].field = "temperature"

(***************************************************************************)
(* C9: a run issues a weather-service request only after get_city_id       *)
(* returned Resolved, and at most one; a failed resolution is echoed and   *)
(* ends the run without a request; a failed request (transport error or    *)
(* non-2xx response) is echoed as a service error and ends the run,        *)
(* without a retry and without a crash.                                    *)
(***************************************************************************)
FailedRequest ==
    \/ response.kind = "transport_error"
    \/ response.kind = "http" /\ ~ (response.status \in 200..299)

C9_RequestOnlyAfterResolved ==
    /\ requests <= 1
    /\ requests = 1 => result.kind = "Resolved"
    /\ (Called /\ result.kind \in Outcomes \ {"Resolved"}) =>
           (pc = "done" /\ requests = 0 /\ echoed = <<result>>)
    /\ FailedRequest =>
           /\ pc = "done"
           /\ requests = 1
           /\ Len(echoed) = 1
           /\ echoed[1].kind = "ServiceError"

(***************************************************************************)
(* C11: the supplied country is classified by its length alone.  A string  *)
(* of at most 2 characters is looked up among the codes only and, when     *)
(* found, the resolved code is the string lower-cased; a longer string is  *)
(* looked up among the full names only and resolves to the code of that    *)
(* name.  A string found on the other side of the table (a long code, a    *)
(* short name) or 1 character long is CountryNotRecognized.                *)
(***************************************************************************)
\* the resolved code, as a sequence of zero or one element
ByLength(s) ==
    IF Len(s) <= 2
    THEN IF \E e \in Entries : lower(e[1]) = lower(s) THEN <<lower(s)>> ELSE <<>>
    ELSE IF \E e \in Entries : lower(e[2]) = lower(s)
         THEN <<lower((CHOOSE e \in Entries : lower(e[2]) = lower(s))[1])>>
         ELSE <<>>

C11_ClassifiedByLength ==
    (Called /\ Answered) =>
        result =
            IF ByLength(Supplied) = <<>>
            THEN [kind |-> "CountryNotRecognized", country |-> Supplied]
            ELSE IF MatchesIn(ByLength(Supplied)[1]) = {}
            THEN [kind |-> "CityNotFoundInCountry",
                  city |-> city, country |-> Supplied]
            ELSE [kind |-> "Resolved",
                  id |-> cities_json[First(MatchesIn(ByLength(Supplied)[1]))].id]

\* a 3-character string that is a code of the table is not accepted as one
C11_Witness ==
    /\ Called
    /\ Answered
    /\ Supplied = <<"F", "r", "a">>
    /\ \E e \in Entries : lower(e[1]) = lower(Supplied)
    /\ result = [kind |-> "CountryNotRecognized", country |-> Supplied]

====
